---- MODULE Spec2Model ----
(***************************************************************************)
(* Model of the WayForPay payment tracking engine, Scripts/WFPHandler.py:  *)
(* create_invoice, the background task get_payment_data and the waiting    *)
(* call check_payment_data, as tasks of one asyncio event loop.  A task    *)
(* runs without interruption between two awaits that suspend it, so every  *)
(* action below is the code of one task from one suspension to the next.   *)
(*                                                                         *)
(* Python objects are modelled with their identity: an order dict is its   *)
(* index in orders, a list object is its index in lists, and the dict      *)
(* self.payments is a sequence of key/value entries in insertion order.    *)
(***************************************************************************)
EXTENDS Integers, Sequences, FiniteSets, TLC

\* ---- bounds of the model ------------------------------------------------
NUsers == 2
MaxOrders == 2
MaxWaiters == 2
MaxTicks == 2
MaxRecords == 1
MaxCalls == 3
TimedSlack == 2
TimedOrders == 1
SelectOrders == 3

\* ---- constants of the program -------------------------------------------
Timeout == 1200
PollInterval == 5
IdleInterval == 5
SweepInterval == 15
Lookback == 1000

Users == 1..NUsers
PTypes == <<"album", "course">>
ProductTypes == {PTypes[i] : i \in 1..Len(PTypes)}
None == "None"
Terminal == {"Approved", "Declined", "Expired"}
\* The statuses the modelled gateway reports: two of the terminal ones and one
\* that is not terminal.
TxStatuses == {"Approved", "Declined", "InProcessing"}
InvoiceReplies == {"url", "nourl", "transport"}

VARIABLES now, nticks, orders, lists, payments, sw, wt, singleton

vars == <<now, nticks, orders, lists, payments, sw, wt, singleton>>

Range(s) == {s[i] : i \in 1..Len(s)}

\* ---- the dict self.payments: entries [k, v] in insertion order ------------
Has(pay, u) == \E i \in 1..Len(pay) : pay[i].k = u

Get(pay, u) ==
    IF Has(pay, u) THEN pay[CHOOSE i \in 1..Len(pay) : pay[i].k = u].v ELSE 0

Put(pay, u, l) ==
    IF Has(pay, u)
    THEN [i \in 1..Len(pay) |-> IF pay[i].k = u THEN [k |-> u, v |-> l] ELSE pay[i]]
    ELSE Append(pay, [k |-> u, v |-> l])

Del(pay, u) == SelectSeq(pay, LAMBDA e : e.k # u)

Keys(pay) == [i \in 1..Len(pay) |-> pay[i].k]

\* The orders reachable from the Ledger.
Reachable(pay, ls) == UNION {Range(ls[pay[i].v]) : i \in 1..Len(pay)}

InLedger(o) == o \in Reachable(payments, lists)

\* order_reference = f"{user_id}-{order_date}": the decimal date holds no "-",
\* so the string determines the pair and the pair the string.
OrderReference(u, d) == <<u, d>>

RefOf(o) == OrderReference(orders[o].user, orders[o].date)

\* The calls' arguments, up to renaming: a user id or a product type is used
\* for the first time only after the ones before it in Users or PTypes.
Max(S) == CHOOSE x \in S : \A y \in S : y <= x

PIndex(p) == CHOOSE i \in 1..Len(PTypes) : PTypes[i] = p

UsedUsers ==
    {orders[o].user : o \in 1..Len(orders)}
    \cup {wt[w].user : w \in {v \in 1..MaxWaiters : wt[v].pc # "idle"}}

UsedPTypes ==
    {PIndex(orders[o].ptype) : o \in 1..Len(orders)}
    \cup {PIndex(wt[w].ptype) : w \in {v \in 1..MaxWaiters : wt[v].pc # "idle"}}

Args(u, p) ==
    /\ u <= Max(UsedUsers \cup {0}) + 1
    /\ PIndex(p) <= Max(UsedPTypes \cup {0}) + 1

\* ---- create_invoice -------------------------------------------------------
\* An order dict that already carries a payment_status.
NewOrderApproved(u, p, d) ==
    [user |-> u, ptype |-> p, date |-> d, status |-> "Approved", call |-> "post"]

\* Lines 97-101: the appended dict has the keys order_reference, product_type
\* and order_date, and no payment_status.  call is how the gateway call of
\* this create_invoice stands.
NewOrder(u, p, d) ==
    [user |-> u, ptype |-> p, date |-> d, status |-> None, call |-> "post"]

\* Lines 83-101, up to the await of the gateway call: the Order is appended
\* to the user's list, which is created when the user has none (or an empty one).
CreateInvoice(u, p) ==
    /\ LET order_date == now
           oid == Len(orders) + 1
           user_info == Get(payments, u)
           fresh == user_info = 0 \/ lists[user_info] = <<>>
           lid == IF fresh THEN Len(lists) + 1 ELSE user_info
           lists1 == IF fresh THEN Append(lists, <<>>) ELSE lists
       IN  /\ payments' = (IF fresh THEN Put(payments, u, lid) ELSE payments)
           /\ lists' = [lists1 EXCEPT ![lid] = Append(@, oid)]
           /\ orders' = Append(orders, NewOrder(u, p, order_date))
    /\ UNCHANGED <<singleton, now, nticks, sw, wt>>

\* What the call gives its caller for a reply of the gateway (lines 121-130).
\* "transport": the post or the body parse raises before result is bound, and
\* the handler's own message reads result: the call raises UnboundLocalError.
InvoiceOutcome(r) ==
    CASE r = "url" -> "ok"
      [] r = "nourl" -> "error"
      [] r = "transport" -> "raised"

InvoiceResponse(o, r) ==
    /\ orders[o].call = "post"
    /\ orders' = [orders EXCEPT ![o].call = InvoiceOutcome(r)]
    /\ UNCHANGED <<singleton, now, nticks, lists, payments, sw, wt>>

\* ---- get_payment_data: the Reconciliation Loop ----------------------------
\* The task's state at a suspension: pc is "start" (created, not yet run),
\* "sleep" (either sleep, until wake), "post" (awaiting the gateway's reply for
\* the order cur) or "dead" (an exception left the coroutine).  keys[ki] is the
\* user of the outer for loop, lid the list object bound to the local payments,
\* j the position of its list iterator, breq / bres whether the locals
\* order_reference, date_begin, request_data / result have ever been bound,
\* rem the seconds left of the sleep.  Two fields log the running sweep: n0 is
\* the number of Orders appended before the sweep began, seen the Orders it
\* has sent a query for.
SweepIdle(s) ==
    [pc |-> "sleep", keys |-> <<>>, ki |-> 0, lid |-> 0, j |-> 0, cur |-> 0,
     date_end |-> 0, breq |-> s.breq, bres |-> s.bres, rem |-> 0,
     n0 |-> 0, seen |-> {}]

SweepInit ==
    [pc |-> "start", keys |-> <<>>, ki |-> 0, lid |-> 0, j |-> 0, cur |-> 0,
     date_end |-> 0, breq |-> FALSE, bres |-> FALSE, rem |-> 0,
     n0 |-> 0, seen |-> {}]

RECURSIVE ForUsers(_, _)
RECURSIVE ForPayments(_, _)

\* Lines 185-186: the handler's message reads order_reference, date_begin,
\* request_data and result; when one of them was never bound the message
\* itself raises UnboundLocalError, which nothing catches.
Handler(pay, s) ==
    IF s.breq /\ s.bres
    THEN ForUsers(pay, s)
    ELSE [pay |-> pay, s |-> [SweepIdle(s) EXCEPT !.pc = "dead"]]

\* Line 148: the next user of the snapshot list(self.payments.keys()), or the
\* sleep of line 188 after the last one.
ForUsers(pay, s) ==
    IF s.ki = Len(s.keys)
    THEN [pay |-> pay, s |-> [SweepIdle(s) EXCEPT !.rem = SweepInterval]]
    ELSE LET s1 == [s EXCEPT !.ki = s.ki + 1]
             u == s1.keys[s1.ki]
         IN  IF ~Has(pay, u)
             THEN Handler(pay, s1)
             ELSE ForPayments(pay, [s1 EXCEPT !.lid = Get(pay, u), !.j = 0])

\* Lines 151-183: the list iterator yields the element at its position while
\* the position is inside the list as it is now; the query for that order is
\* sent and the task is suspended.  After the last one, lines 182-183.
ForPayments(pay, s) ==
    IF s.j < Len(lists[s.lid])
    THEN [pay |-> pay,
          s |-> [s EXCEPT !.pc = "post", !.j = s.j + 1,
                          !.cur = lists[s.lid][s.j + 1], !.breq = TRUE,
                          !.seen = s.seen \cup {lists[s.lid][s.j + 1]}]]
    ELSE LET u == s.keys[s.ki]
         IN  IF lists[s.lid] = <<>>
             THEN IF Has(pay, u) THEN ForUsers(Del(pay, u), s) ELSE Handler(pay, s)
             ELSE ForUsers(pay, s)

\* Lines 138-148: the head of the while loop, from the start of the task or
\* after a sleep.
SweepBegin ==
    /\ sw.pc = "start" \/ (sw.pc = "sleep" /\ sw.rem = 0)
    /\ LET r == IF payments = <<>>
                THEN [pay |-> payments,
                      s |-> [SweepIdle(sw) EXCEPT !.rem = IdleInterval]]
                ELSE ForUsers(payments,
                              [SweepIdle(sw) EXCEPT !.date_end = now, !.keys = Keys(payments),
                                                    !.n0 = Len(orders)])
       IN  /\ sw' = r.s
           /\ payments' = r.pay
    /\ UNCHANGED <<singleton, now, nticks, orders, lists, wt>>

\* The gateway's replies to a TRANSACTION_LIST query: the call raises before
\* result is bound ("transport"), the body parses but the scan of it raises
\* after the records txs ("malformed", result is bound), or a transactionList
\* txs ("list").
TxRecords == [ref : {RefOf(o) : o \in 1..Len(orders)}, st : TxStatuses]

RECURSIVE SeqsUpTo(_, _)
SeqsUpTo(S, n) ==
    IF n = 0 THEN {<<>>}
    ELSE LET shorter == SeqsUpTo(S, n - 1)
         IN  shorter \cup {Append(q, x) : q \in shorter, x \in S}

TxReplies ==
    {[kind |-> "transport", txs |-> <<>>]}
    \cup {[kind |-> k, txs |-> q] :
              k \in {"malformed", "list"}, q \in SeqsUpTo(TxRecords, MaxRecords)}

\* A scan that takes the status of any record, whatever its orderReference.
RECURSIVE ApplyAnyReference(_, _, _)
ApplyAnyReference(status, ref, txs) ==
    IF txs = <<>> THEN status
    ELSE LET t == Head(txs)
             st1 == IF t.st \in Terminal THEN t.st ELSE status
         IN  ApplyAnyReference(st1, ref, Tail(txs))

\* A scan that takes "Approved" for the only terminal status.
RECURSIVE ApplyApprovedOnly(_, _, _)
ApplyApprovedOnly(status, ref, txs) ==
    IF txs = <<>> THEN status
    ELSE LET t == Head(txs)
             st1 == IF t.ref = ref /\ t.st = "Approved" THEN t.st ELSE status
         IN  ApplyApprovedOnly(st1, ref, Tail(txs))

\* Lines 175-180: every record of the list, in order, whose orderReference is
\* the order's and whose status is terminal is written to payment_status.
RECURSIVE ApplyTransactions(_, _, _)
ApplyTransactions(status, ref, txs) ==
    IF txs = <<>> THEN status
    ELSE LET t == Head(txs)
             st1 == IF t.ref = ref /\ t.st \in Terminal THEN t.st ELSE status
         IN  ApplyTransactions(st1, ref, Tail(txs))

\* Lines 167-186, from the reply to the next suspension.
SweepResponse(r) ==
    /\ sw.pc = "post"
    /\ LET o == sw.cur
           res == CASE r.kind = "transport" -> Handler(payments, sw)
                    [] r.kind = "malformed" -> Handler(payments, [sw EXCEPT !.bres = TRUE])
                    [] r.kind = "list" -> ForPayments(payments, [sw EXCEPT !.bres = TRUE])
       IN  /\ sw' = res.s
           /\ payments' = res.pay
           /\ orders' = [orders EXCEPT ![o].status = ApplyTransactions(@, RefOf(o), r.txs)]
    /\ UNCHANGED <<singleton, now, nticks, lists, wt>>

\* ---- check_payment_data: Await-Outcome --------------------------------------
\* A call's state at a suspension or after its end: pc is "idle" (not called
\* yet), "sleep", or how it ended: "returned" (with status), "notfound"
\* (ValueError), "timeout" (TimeoutError), "raised" (IndexError, re-raised).
\* lid is the list object bound to user_payments, target the order bound to
\* target_dict, index target_index, elapsed time.time() - start_time, rem the
\* seconds left of the sleep, waited whether the call has slept.
WaiterIdle ==
    [pc |-> "idle", user |-> 0, ptype |-> None, lid |-> 0, target |-> 0,
     index |-> 0, elapsed |-> 0, rem |-> 0, status |-> None, waited |-> FALSE]

\* Lines 212-215: the list rebuilt in place, without the orders of the
\* product type when a target is already chosen (target 0: none is).
Rebuild(seq, p, target) ==
    SelectSeq(seq, LAMBDA o : ~(orders[o].ptype = p /\ target # 0))

FirstMatchAnyType(seq, p) == IF seq = <<>> THEN 0 ELSE 1

\* A scan that keeps the last order of the product type.
LastMatch(seq, p) ==
    IF \E i \in 1..Len(seq) : orders[seq[i]].ptype = p
    THEN CHOOSE i \in 1..Len(seq) :
            /\ orders[seq[i]].ptype = p
            /\ \A k \in (i + 1)..Len(seq) : orders[seq[k]].ptype # p
    ELSE 0

\* Lines 216-219: the position of the first order of the product type, 0 when
\* there is none (positions count from 1 here, from 0 in the code).
FirstMatch(seq, p) ==
    IF \E i \in 1..Len(seq) : orders[seq[i]].ptype = p
    THEN CHOOSE i \in 1..Len(seq) :
            /\ orders[seq[i]].ptype = p
            /\ \A k \in 1..(i - 1) : orders[seq[k]].ptype # p
    ELSE 0

\* The user's sequence in the Ledger, empty when the user has no entry.
SeqOf(pay, ls, u) == IF Has(pay, u) THEN ls[Get(pay, u)] ELSE <<>>

\* list.pop(index)
Pop(seq, i) == [k \in 1..(Len(seq) - 1) |-> IF k < i THEN seq[k] ELSE seq[k + 1]]

\* A prune that drops the oldest key of the dict instead of the user's.
PruneOldest(pay, u, seq) ==
    IF seq = <<>> /\ pay # <<>> THEN Tail(pay) ELSE pay

PruneNever(pay, u, seq) == pay

\* Lines 243-244
Prune(pay, u, seq) == IF seq = <<>> /\ Has(pay, u) THEN Del(pay, u) ELSE pay

TimedOutTwoMinutes(elapsed) == elapsed > 60 * 2

\* Line 262
TimedOut(elapsed) == elapsed > Timeout

\* Lines 236-268: one pass of the polling loop for the waiter record rec.
Poll(rec, pay, ls) ==
    LET done == [rec EXCEPT !.lid = 0, !.index = 0, !.elapsed = 0]
    IN  IF orders[rec.target].status # None
        THEN IF rec.index > Len(ls[rec.lid])
             THEN [pay |-> pay, ls |-> ls, w |-> [done EXCEPT !.pc = "raised"]]
             ELSE LET seq == Pop(ls[rec.lid], rec.index)
                  IN  [pay |-> Prune(pay, rec.user, seq),
                       ls |-> [ls EXCEPT ![rec.lid] = seq],
                       w |-> [done EXCEPT !.pc = "returned",
                                          !.status = orders[rec.target].status]]
        ELSE IF TimedOut(rec.elapsed)
             THEN [pay |-> pay, ls |-> ls,
                   w |-> [done EXCEPT !.pc = "timeout", !.elapsed = rec.elapsed]]
             ELSE [pay |-> pay, ls |-> ls,
                   w |-> [rec EXCEPT !.pc = "sleep", !.rem = PollInterval, !.waited = TRUE]]

\* Lines 206-234 and the first pass of the loop.  An unknown user gets a new
\* empty list that is stored nowhere.
AwaitStart(w, u, p) ==
    /\ wt[w].pc = "idle"
    /\ \A v \in 1..(w - 1) : wt[v].pc # "idle"
    /\ LET lid == Get(payments, u)
           seq == IF lid = 0 THEN <<>> ELSE Rebuild(lists[lid], p, 0)
           ls1 == IF lid = 0 THEN lists ELSE [lists EXCEPT ![lid] = seq]
           idx == FirstMatch(seq, p)
           rec == [WaiterIdle EXCEPT !.user = u, !.ptype = p]
       IN  IF idx = 0
           THEN /\ wt' = [wt EXCEPT ![w] = [rec EXCEPT !.pc = "notfound"]]
                /\ lists' = ls1
                /\ payments' = payments
           ELSE LET r == Poll([rec EXCEPT !.lid = lid, !.target = seq[idx],
                                          !.index = idx],
                              payments, ls1)
                IN  /\ wt' = [wt EXCEPT ![w] = r.w]
                    /\ lists' = r.ls
                    /\ payments' = r.pay
    /\ UNCHANGED <<singleton, now, nticks, orders, sw>>

\* Line 268 returns: the next pass of the loop.
AwaitWake(w) ==
    /\ wt[w].pc = "sleep"
    /\ wt[w].rem = 0
    /\ LET r == Poll(wt[w], payments, lists)
       IN  /\ wt' = [wt EXCEPT ![w] = r.w]
           /\ lists' = r.ls
           /\ payments' = r.pay
    /\ UNCHANGED <<singleton, now, nticks, orders, sw>>

\* ---- time ------------------------------------------------------------------
\* d seconds pass on the clock read by time.time(): the sleeps run down and
\* the waiting calls grow older.
Less(n, d) == IF n > d THEN n - d ELSE 0

Elapse(d) ==
    /\ now' = now + d
    /\ sw' = IF sw.pc = "sleep" THEN [sw EXCEPT !.rem = Less(@, d)] ELSE sw
    /\ wt' = [w \in 1..MaxWaiters |->
                IF wt[w].pc = "sleep"
                THEN [wt[w] EXCEPT !.rem = Less(@, d), !.elapsed = @ + d]
                ELSE wt[w]]

\* A sleeping task resumes at or after the end of its sleep: the clock moves
\* in strides that may pass it.
TickSteps == {PollInterval, Timeout + PollInterval}

Tick(d) ==
    /\ nticks < MaxTicks
    /\ nticks' = nticks + 1
    /\ Elapse(d)
    /\ UNCHANGED <<singleton, orders, lists, payments>>

\* The timers kept exactly: a task whose sleep has ended runs before the
\* clock moves, and the clock moves to the end of the next sleep.
TimedHorizon == Timeout + TimedSlack * PollInterval

Sleeps ==
    (IF sw.pc = "sleep" THEN {sw.rem} ELSE {})
    \cup {wt[w].rem : w \in {v \in 1..MaxWaiters : wt[v].pc = "sleep"}}

Min(S) == CHOOSE x \in S : \A y \in S : x <= y

TickExact ==
    /\ Sleeps # {}
    /\ 0 \notin Sleeps
    /\ now + Min(Sleeps) <= TimedHorizon
    /\ Elapse(Min(Sleeps))
    /\ UNCHANGED <<singleton, nticks, orders, lists, payments>>

\* ---- SingletonMeta and __init__: the construction of the handler ----------
\* singleton is the process's view of the class: instances is the object id
\* stored in SingletonMeta._instances for the class (0: the key is absent),
\* objs the handler objects whose construction completed, with their
\* configuration, ntasks the number of get_payment_data tasks that
\* asyncio.create_task has started, calls the number of constructor calls and
\* ret what the last one gave its caller (an object id, 0 before any call,
\* "raised" as -1).  payments and sw are the Ledger and the loop task of the
\* object in instances.
Configs ==
    {[MERCHANT_ACCOUNT |-> a, SECRET_KEY |-> a, DOMAIN_NAME |-> a] :
        a \in {None, "m1", "m2"}}

NoSingleton ==
    [instances |-> 0, objs |-> <<>>, ntasks |-> 0, calls |-> 0, ret |-> 0]

NoTask == [SweepInit EXCEPT !.pc = "none"]

\* A registry that never finds the class.
HasInstanceNever(s) == FALSE

\* Line 29: cls in cls._instances
HasInstance(s) == s.instances # 0

\* Lines 29-32 with __init__ (lines 50-56) for the arguments cfg; running says
\* whether the caller is inside a running event loop.  __call__ runs
\* __init__ only on the object it has just created, which has no attribute
\* initialized.  Without a running loop asyncio.create_task raises
\* RuntimeError out of __init__ and of __call__: nothing is registered and
\* the half-built object is dropped.
Construct(cfg, running) ==
    /\ singleton.calls < MaxCalls
    /\ LET s == [singleton EXCEPT !.calls = @ + 1]
       IN  IF HasInstance(singleton)
           THEN /\ singleton' = [s EXCEPT !.ret = singleton.instances]
                /\ UNCHANGED <<payments, sw>>
           ELSE IF running
                THEN LET obj == Len(singleton.objs) + 1
                     IN  /\ singleton' =
                                [s EXCEPT !.objs = Append(@, [cfg |-> cfg, initialized |-> TRUE]),
                                          !.ntasks = @ + 1,
                                          !.instances = obj,
                                          !.ret = obj]
                         /\ payments' = <<>>
                         /\ sw' = SweepInit
                ELSE /\ singleton' = [s EXCEPT !.ret = -1]
                     /\ UNCHANGED <<payments, sw>>
    /\ UNCHANGED <<now, nticks, orders, lists, wt>>

\* The handler constructed once, inside the running loop.
Constructed ==
    [instances |-> 1,
     objs |-> <<[cfg |-> [MERCHANT_ACCOUNT |-> "m1", SECRET_KEY |-> "m1",
                          DOMAIN_NAME |-> "m1"],
                 initialized |-> TRUE]>>,
     ntasks |-> 1, calls |-> 1, ret |-> 1]

Init ==
    /\ now = 0
    /\ nticks = 0
    /\ orders = <<>>
    /\ lists = <<>>
    /\ payments = <<>>
    /\ sw = SweepInit
    /\ wt = [w \in 1..MaxWaiters |-> WaiterIdle]
    /\ singleton = Constructed

Next ==
    \/ \E u \in Users, p \in ProductTypes :
            Len(orders) < MaxOrders /\ Args(u, p) /\ CreateInvoice(u, p)
    \/ SweepBegin
    \/ \E r \in TxReplies : SweepResponse(r)
    \/ \E w \in 1..MaxWaiters, u \in Users, p \in ProductTypes :
            Args(u, p) /\ AwaitStart(w, u, p)
    \/ \E w \in 1..MaxWaiters : AwaitWake(w)
    \/ \E d \in TickSteps : Tick(d)

Spec == Init /\ [][Next]_vars

\* The calls are made early enough for a waiting call to reach its timeout
\* within the horizon.
Early == now + Timeout + PollInterval <= TimedHorizon

NextTimed ==
    \/ \E u \in Users, p \in ProductTypes :
            Early /\ Len(orders) < TimedOrders /\ Args(u, p) /\ CreateInvoice(u, p)
    \/ SweepBegin
    \/ \E r \in TxReplies : SweepResponse(r)
    \/ \E u \in Users, p \in ProductTypes : Early /\ Args(u, p) /\ AwaitStart(1, u, p)
    \/ AwaitWake(1)
    \/ TickExact

SpecTimed == Init /\ [][NextTimed]_vars

\* create_invoice with its gateway call, beside the Reconciliation Loop.
NextInvoice ==
    \/ \E u \in Users, p \in ProductTypes :
            Len(orders) < MaxOrders /\ Args(u, p) /\ CreateInvoice(u, p)
    \/ \E o \in 1..Len(orders), r \in InvoiceReplies : InvoiceResponse(o, r)
    \/ SweepBegin
    \/ \E r \in TxReplies : SweepResponse(r)
    \/ \E d \in TickSteps : Tick(d)

SpecInvoice == Init /\ [][NextInvoice]_vars

\* The end-to-end run with a gateway that works: every create_invoice call
\* gets its invoice URL, every transaction-list query is answered, before
\* the clock moves, by a list holding one record of the queried order with a
\* terminal status, and the timers are kept exactly: the clock moves only
\* when no task is ready to run and no query is awaiting its answer.
SweepAnswer ==
    /\ sw.pc = "post"
    /\ \E st \in Terminal \cap TxStatuses :
          SweepResponse([kind |-> "list",
                         txs |-> <<[ref |-> RefOf(sw.cur), st |-> st]>>])

TickLive == sw.pc \notin {"start", "post"} /\ TickExact

NextLive ==
    \/ \E u \in Users, p \in ProductTypes :
            Early /\ Len(orders) < TimedOrders /\ Args(u, p) /\ CreateInvoice(u, p)
    \/ \E o \in 1..Len(orders) : InvoiceResponse(o, "url")
    \/ SweepBegin
    \/ SweepAnswer
    \/ \E u \in Users, p \in ProductTypes : Early /\ Args(u, p) /\ AwaitStart(1, u, p)
    \/ AwaitWake(1)
    \/ TickLive

\* The event loop runs every task that is ready (asyncio's ready queue is
\* first in, first out), the gateway answers every call and the clock moves on.
SpecLive ==
    /\ Init
    /\ [][NextLive]_vars
    /\ WF_vars(\E o \in 1..Len(orders) : InvoiceResponse(o, "url"))
    /\ WF_vars(SweepBegin)
    /\ WF_vars(SweepAnswer)
    /\ WF_vars(AwaitWake(1))
    /\ WF_vars(TickLive)

\* One user's sequence grown longer: the calls of one user with a gateway
\* that answers every query, with a terminal record of the queried order or
\* with an empty list.
SweepEmpty == SweepResponse([kind |-> "list", txs |-> <<>>])

NextSelect ==
    \/ \E p \in ProductTypes :
            Len(orders) < SelectOrders /\ Args(1, p) /\ CreateInvoice(1, p)
    \/ SweepBegin
    \/ SweepAnswer
    \/ SweepEmpty
    \/ \E w \in 1..MaxWaiters, p \in ProductTypes : Args(1, p) /\ AwaitStart(w, 1, p)
    \/ \E w \in 1..MaxWaiters : AwaitWake(w)
    \/ Tick(PollInterval)

SpecSelect == Init /\ [][NextSelect]_vars

\* The process from its start, before any construction: constructor calls
\* with any arguments, inside or outside the running loop, beside
\* create_invoice and the Reconciliation Loop of the registered handler.
InitProcess ==
    /\ now = 0
    /\ nticks = 0
    /\ orders = <<>>
    /\ lists = <<>>
    /\ payments = <<>>
    /\ sw = NoTask
    /\ wt = [w \in 1..MaxWaiters |-> WaiterIdle]
    /\ singleton = NoSingleton

NextSingleton ==
    \/ \E cfg \in Configs, running \in BOOLEAN : Construct(cfg, running)
    \/ \E u \in Users, p \in ProductTypes :
            /\ HasInstance(singleton)
            /\ Len(orders) < MaxOrders
            /\ Args(u, p)
            /\ CreateInvoice(u, p)
    \/ SweepBegin
    \/ \E r \in TxReplies : SweepResponse(r)
    \/ \E d \in TickSteps : Tick(d)

SpecSingleton == InitProcess /\ [][NextSingleton]_vars

\* ---- the claims ----------------------------------------------------------------
Waiters == 1..MaxWaiters
Ended(w) == wt[w].pc \in {"returned", "notfound", "timeout", "raised"}
Remove(seq, o) == SelectSeq(seq, LAMBDA x : x # o)

\* C1: when the gateway call of create_invoice fails in transport or answers
\* without an invoice URL, no Order of that call is in the Ledger after it.
C1_FailedInvoiceLeavesNoOrder ==
    [][\A o \in 1..Len(orders) :
          (orders[o].call = "post" /\ orders'[o].call \in {"error", "raised"})
              => o \notin Reachable(payments', lists')]_vars

\* C2: a call that observes a terminal status on its Order, the Order being
\* in the user's sequence, removes exactly that Order from the sequence,
\* nothing else, and returns its status.
C2_RemovesExactlySelected ==
    [][\A w \in Waiters :
          (/\ wt[w].pc \in {"idle", "sleep"}
           /\ wt'[w].pc \in {"returned", "raised"}
           /\ wt'[w].target \in Range(SeqOf(payments, lists, wt'[w].user)))
              => /\ wt'[w].pc = "returned"
                 /\ wt'[w].status = orders[wt'[w].target].status
                 /\ \A u \in Users :
                        SeqOf(payments', lists', u) =
                            IF u = wt'[w].user
                            THEN Remove(SeqOf(payments, lists, u), wt'[w].target)
                            ELSE SeqOf(payments, lists, u)]_vars

\* C3: of two calls that selected the same Order while it was pending, at
\* most one returns a status.
C3_AtMostOneReturns ==
    \A w1, w2 \in Waiters :
        (/\ w1 # w2
         /\ wt[w1].target # 0
         /\ wt[w1].target = wt[w2].target
         /\ wt[w1].waited /\ wt[w2].waited)
            => ~(wt[w1].pc = "returned" /\ wt[w2].pc = "returned")

\* C4: once an Order's status is set to a terminal value no step changes it.
C4_StatusWrittenOnce ==
    [][\A o \in 1..Len(orders) :
          orders[o].status # None => orders'[o].status = orders[o].status]_vars

\* C5: an Order leaves the Ledger only in a step of an Await-Outcome call.
C5_OnlyAwaitRemoves ==
    [][\A o \in 1..Len(orders) :
          (o \in Reachable(payments, lists) /\ o \notin Reachable(payments', lists'))
              => wt' # wt]_vars

\* C6: the Reconciliation Loop never terminates.
C6_LoopNeverTerminates == sw.pc # "dead"

\* C7: a call whose Order never receives a status ends only with a timeout
\* error, at an elapsed time between the ceiling and the ceiling plus one
\* poll interval.
C7_TimeoutBound ==
    \A w \in Waiters :
        (Ended(w) /\ wt[w].target # 0 /\ orders[wt[w].target].status = None)
            => /\ wt[w].pc = "timeout"
               /\ Timeout <= wt[w].elapsed
               /\ wt[w].elapsed <= Timeout + PollInterval

C7_Witness ==
    \E w \in Waiters : wt[w].pc = "timeout" /\ wt[w].elapsed > Timeout

\* C8: when a call fails with a timeout error its Order is still in the
\* user's sequence in the Ledger.
C8_TimeoutLeavesOrder ==
    [][\A w \in Waiters :
          (wt[w].pc = "sleep" /\ wt'[w].pc = "timeout")
              => wt'[w].target \in Range(SeqOf(payments', lists', wt'[w].user))]_vars

\* C9: a call for a user and product type with no matching Order in the
\* Ledger ends with the not-found error in its first step, before any
\* suspension, and that step changes neither the Ledger nor any Order.
NoMatch(u, p) ==
    \A o \in Range(SeqOf(payments, lists, u)) : orders[o].ptype # p

C9_NotFoundImmediately ==
    [][\A w \in Waiters :
          (wt[w].pc = "idle" /\ wt'[w].pc # "idle" /\ NoMatch(wt'[w].user, wt'[w].ptype))
              => /\ wt'[w].pc = "notfound"
                 /\ payments' = payments
                 /\ lists' = lists
                 /\ orders' = orders
                 /\ sw' = sw]_vars

C9_Witness ==
    /\ \E w \in Waiters : wt[w].pc = "notfound" /\ ~Has(payments, wt[w].user)
    /\ \E w \in Waiters : wt[w].pc = "notfound" /\ Has(payments, wt[w].user)

\* C10: at every suspension no user key of the Ledger maps to an empty
\* sequence.
C10_NoEmptySequence ==
    \A i \in 1..Len(payments) : lists[payments[i].v] # <<>>

C10_Witness ==
    \E w \in Waiters :
        /\ wt[w].pc = "returned"
        /\ ~Has(payments, wt[w].user)
        /\ \E i \in 1..Len(payments) : Len(lists[payments[i].v]) = 1

\* C11: any two distinct Orders appended by create_invoice carry different
\* order references, whatever their users and the clock values at their
\* creation.
C11_DistinctReferences ==
    \A a, b \in 1..Len(orders) : a # b => RefOf(a) # RefOf(b)

\* C12: for a user with one Order whose create_invoice call succeeded, with a
\* gateway that answers every query with a terminal status of the Order and a
\* fair scheduler, a waiting Await-Outcome call for the Order eventually
\* returns the reported status, and once it has returned the Ledger has no
\* entry for the user.
OneOrder(u) == Cardinality({o \in 1..Len(orders) : orders[o].user = u}) = 1

C12_EventuallyReturns ==
    /\ \A w \in Waiters :
          (/\ wt[w].pc = "sleep"
           /\ OneOrder(wt[w].user)
           /\ orders[wt[w].target].call = "ok")
              ~> (\/ /\ wt[w].pc = "returned"
                     /\ wt[w].status \in Terminal
                     /\ wt[w].status = orders[wt[w].target].status
                     /\ ~Has(payments, wt[w].user)
                  \/ ~OneOrder(wt[w].user))
    /\ [](\A w \in Waiters :
              (wt[w].pc = "returned" /\ OneOrder(wt[w].user))
                  => ~Has(payments, wt[w].user))

C12_Witness ==
    \E w \in Waiters :
        /\ wt[w].pc = "returned"
        /\ wt[w].waited
        /\ wt[w].status \in Terminal
        /\ OneOrder(wt[w].user)
        /\ orders[wt[w].target].call = "ok"
        /\ ~Has(payments, wt[w].user)

\* C13: within a sweep, whatever the gateway's reply to the query of an Order
\* (a failure included), the loop, when it survives the reply, goes on to
\* query the pending Order that follows in the same user's sequence.
C13_FailureSkipsNoOrder ==
    [][(/\ sw.pc = "post"
        /\ sw' # sw
        /\ sw.bres
        /\ sw.j < Len(lists[sw.lid])
        /\ orders[lists[sw.lid][sw.j + 1]].status = None)
           => /\ sw'.pc = "post"
              /\ sw'.lid = sw.lid
              /\ sw'.cur = lists[sw.lid][sw.j + 1]]_vars

\* C14: every transaction-list query issued for an Order has the window
\* start created_at - 1000 and the window holds created_at:
\* window_start <= created_at <= window_end, the time read at the start of
\* the sweep.
WindowStart(o) == orders[o].date - Lookback

C14_WindowHoldsCreation ==
    sw.pc = "post"
        => /\ WindowStart(sw.cur) = orders[sw.cur].date - 1000
           /\ WindowStart(sw.cur) <= orders[sw.cur].date
           /\ orders[sw.cur].date <= sw.date_end

\* C15: a sweep skips no Order that was in the Ledger when the sweep began
\* and is still there when the loop leaves the user's list: when the list
\* iterator is at the end of the list, every such Order of the list has been
\* queried in this sweep.
C15_SweepSkipsNoOrder ==
    [][(sw.pc = "post" /\ sw' # sw /\ sw.j >= Len(lists[sw.lid]))
          => \A o \in Range(lists'[sw.lid]) : o <= sw.n0 => o \in sw.seen]_vars

\* C16: the Reconciliation Loop has no query in flight for an Order whose
\* status is already set: an Order with a status is passed over.
C16_NoQueryWithStatus ==
    sw.pc = "post" => orders[sw.cur].status = None

\* C17: a step that sets an Order's status sets it to Approved, Declined or
\* Expired, and to the status of a record of the gateway's reply whose
\* reference is the Order's; a reply with no record of the queried Order's
\* reference and a terminal status changes no status.
Matches(r, o, st) ==
    \E i \in 1..Len(r.txs) : r.txs[i].ref = RefOf(o) /\ r.txs[i].st = st

C17_StatusFromMatchingRecord ==
    [][\A o \in 1..Len(orders) :
          orders'[o].status # orders[o].status
              => /\ orders'[o].status \in {"Approved", "Declined", "Expired"}
                 /\ \E r \in TxReplies :
                       SweepResponse(r) /\ Matches(r, o, orders'[o].status)
                 /\ \A r \in TxReplies :
                       SweepResponse(r)
                           => \E st \in Terminal : Matches(r, sw.cur, st)]_vars

C17_Witness ==
    /\ \E o \in 1..Len(orders) : orders[o].status \in Terminal
    /\ \E o \in sw.seen : o # sw.cur /\ orders[o].status = None

\* C18: only the Reconciliation Loop writes an Order's status: a step that
\* changes the status of an Order is the loop's step on the reply for that
\* Order and no step of an Await-Outcome call, and create_invoice appends
\* Orders without a status.
C18_OnlyLoopWritesStatus ==
    [][/\ \A o \in 1..Len(orders) :
             orders'[o].status # orders[o].status
                 => /\ sw.pc = "post" /\ sw.cur = o /\ sw' # sw
                    /\ wt' = wt
                    /\ lists' = lists
       /\ \A o \in (Len(orders) + 1)..Len(orders') : orders'[o].status = None
       /\ wt' # wt => \A o \in 1..Len(orders) : orders'[o].status = orders[o].status]_vars

C18_Witness ==
    /\ \E w \in Waiters : wt[w].pc = "returned"
    /\ \E w \in Waiters : wt[w].pc = "timeout"
    /\ \E o \in 1..Len(orders) : orders[o].status \in Terminal
    /\ \E o \in 1..Len(orders) : orders[o].status = None

\* C19: the selection of an Await-Outcome call picks the earliest Order of
\* the user's sequence with the requested product type; a call that selects
\* and goes to wait leaves the sequence as it was; and in every step the
\* Orders that stay in a user's sequence keep their relative order.
Common(seq, other) == SelectSeq(seq, LAMBDA o : o \in Range(other))

C19_SelectsEarliestKeepsOrder ==
    [][/\ \A w \in Waiters :
             (wt[w].pc = "idle" /\ wt'[w].target # 0)
                 => LET seq == SeqOf(payments, lists, wt'[w].user)
                    IN  /\ \E i \in 1..Len(seq) :
                              /\ seq[i] = wt'[w].target
                              /\ orders[seq[i]].ptype = wt'[w].ptype
                              /\ \A k \in 1..(i - 1) : orders[seq[k]].ptype # wt'[w].ptype
                        /\ wt'[w].pc = "sleep"
                              => lists' = lists /\ payments' = payments
       /\ \A u \in Users :
             Common(SeqOf(payments, lists, u), SeqOf(payments', lists', u))
                 = Common(SeqOf(payments', lists', u), SeqOf(payments, lists, u))]_vars

C19_Witness ==
    \E w \in Waiters :
        /\ wt[w].pc = "returned"
        /\ wt[w].waited
        /\ \E i \in 1..Len(payments) :
              LET seq == lists[payments[i].v]
              IN  /\ Len(seq) = 2
                  /\ seq[1] < wt[w].target
                  /\ wt[w].target < seq[2]
                  /\ orders[seq[2]].ptype = wt[w].ptype

\* C20: a step of an Await-Outcome call for user u, however the call ends,
\* changes no Order, leaves every list of another user's Orders as it is, and
\* neither deletes nor replaces the Ledger entry of any other user.
C20_OtherUsersUntouched ==
    [][\A w \in Waiters :
          (wt'[w] # wt[w] /\ now' = now)
              => /\ orders' = orders
                 /\ \A v \in Users \ {wt'[w].user} :
                       /\ Has(payments', v) = Has(payments, v)
                       /\ Get(payments', v) = Get(payments, v)
                       /\ SeqOf(payments', lists', v) = SeqOf(payments, lists, v)
                 /\ Len(lists') = Len(lists)
                 /\ \A l \in 1..Len(lists) :
                       (\E o \in Range(lists[l]) : orders[o].user # wt'[w].user)
                           => lists'[l] = lists[l]]_vars

C20_Witness ==
    \E w \in Waiters :
        /\ wt[w].pc = "returned"
        /\ ~Has(payments, wt[w].user)
        /\ \E v \in Users \ {wt[w].user} :
              /\ Has(payments, v)
              /\ \E o \in Range(SeqOf(payments, lists, v)) : orders[o].status = None

\* C21: however often and with whatever arguments the handler is
\* constructed, there is at most one handler object, hence one Ledger, and at
\* most one Reconciliation Loop task, exactly one once a handler is
\* registered; a construction that finds a registered handler returns it and
\* changes neither its configuration, nor the Ledger, nor the Orders, nor the
\* loop task, and starts no task.
C21_OneLedgerOneLoop ==
    /\ [](/\ Len(singleton.objs) <= 1
          /\ singleton.ntasks <= 1
          /\ singleton.instances # 0
                => /\ singleton.instances = 1
                   /\ Len(singleton.objs) = 1
                   /\ singleton.ntasks = 1)
    /\ [][(singleton'.calls # singleton.calls /\ singleton.instances # 0)
             => /\ singleton'.ret = singleton.instances
                /\ singleton'.instances = singleton.instances
                /\ singleton'.objs = singleton.objs
                /\ singleton'.ntasks = singleton.ntasks
                /\ payments' = payments
                /\ lists' = lists
                /\ orders' = orders
                /\ sw' = sw]_vars

C21_Witness ==
    /\ singleton.calls >= 3
    /\ singleton.ret = 1
    /\ singleton.instances = 1
    /\ payments # <<>>
    /\ sw.pc = "post"
    /\ \E o \in 1..Len(orders) : orders[o].status \in Terminal
====
